---- MODULE Spec2Model ----
(***************************************************************************)
(* A model of src/lib.rs: Warc<T>, a weighted atomic reference counter.    *)
(*                                                                         *)
(* A cell (Inner<T>) holds the atomic counter `global` and the value.  A   *)
(* handle (Warc<T>) holds a private weight `local` and a pointer `inner`   *)
(* to its cell.  Warc is Send but not Sync (its `local` is a Cell), so a   *)
(* handle is used by one thread at a time: the operation in flight on a    *)
(* handle is the position of the thread that owns it, and operations on    *)
(* different handles interleave freely at their atomic accesses.           *)
(***************************************************************************)
EXTENDS Integers, FiniteSets

\* ------------------------------------------------------------------ bounds
\* A clone or a new starts only while fewer than this many handles exist:
\* in Spec, and in SpecCeiling.
MaxLive == 3
CeilingLive == 2
\* A clone starts only while its cell has fewer handles than this: in SpecPair.
PairLive == 2
\* Cells (calls of Warc::new): in Spec, and in all.
SpecCells == 1
MaxCells == 2
\* Width of usize in the model.  TLC's integers are 32 bits wide, so the
\* machine word is modelled narrower than any real target's; the arithmetic
\* on the counter is done modulo 2^WordBits.
WordBits == 20
\* Frees of one cell the model counts (a second free is already a fault).
MaxFrees == 2
\* Failed compare-exchanges of one clone the model counts.
MaxFails == 2

\* -------------------------------------------------------------- constants
\* lib.rs:9   const DEFAULT_WEIGHT: usize = 1 << 16;
WeightBits == 16
DEFAULT_WEIGHT == 2 ^ WeightBits
\* A withdrawal of a whole DEFAULT_WEIGHT (off by one).
AddWeightWhole == DEFAULT_WEIGHT
\* lib.rs:10  const ADD_WEIGHT: usize = DEFAULT_WEIGHT - 1;
ADD_WEIGHT == DEFAULT_WEIGHT - 1
\* usize::MAX (lib.rs:76)
Modulus == 2 ^ WordBits
USIZE_MAX == Modulus - 1

\* Clones of one handle in a row in SpecChain: down to weight 1, and one more.
ChainLen == WeightBits + 1
\* Handle slots: every cell has its own, enough for a chain.
SlotsPerCell == ChainLen + 1
MaxHandles == MaxCells * SlotsPerCell

Handles == 1..MaxHandles
Cells == 1..MaxCells
\* The values a cell may be created with.
Values == {"a", "b"}
\* Those Spec draws from.
SpecValues == {"a"}
NoValue == "none"
NoCell == 0

VARIABLES
    created,          \* created[c]: Warc::new has allocated cell c
    global,           \* global[c]: Inner.global
    value,            \* value[c]: Inner.value
    freed,            \* freed[c]: times Box::from_raw(inner) was dropped
    pc,               \* pc[h]: "free" (no such handle), "idle", or the
                      \*   position of the operation in flight on h
    local,            \* local[h]: Warc.local
    inner,            \* inner[h]: Warc.inner
    current_global,   \* clone's local variable (also fetch_sub's result in drop)
    new_global,       \* clone's local variable
    ncas,             \* successful compare-exchanges of the clone in flight
    nfail,            \* failed ones (counted up to MaxFails)
    given,            \* given[c]: the argument of the Warc::new that made c
    block,            \* block[c]: the heap block Box::new gave cell c (0: none)
    corrupt           \* the allocator's own data has been written over

vars == <<created, global, value, freed, pc, local, inner, current_global,
          new_global, ncas, nfail, given, block, corrupt>>

cellVars == <<created, global, value, freed, given, block, corrupt>>

\* ---------------------------------------------------------------- helpers
\* usize arithmetic that wraps (release build; atomics always wrap).
WrapAdd(a, b) == (a + b) % Modulus
WrapSub(a, b) == (a - b + Modulus) % Modulus

\* Handles that exist (a slot in use).
Used == {h \in Handles : pc[h] # "free"}
\* The slot a new handle of cell c is put in: the first free one of the cell's.
SlotsOf(c) == ((c - 1) * SlotsPerCell + 1)..(c * SlotsPerCell)
FreshSlot(c) == CHOOSE n \in SlotsOf(c) :
                    pc[n] = "free" /\ \A m \in SlotsOf(c) : m < n => pc[m] # "free"
\* Handles of cell c that have not yet given their weight back.
Live(c) == {h \in Handles : inner[h] = c /\ pc[h] \in {"idle", "loop", "withdrawn", "panicked"}}
\* Handles of cell c in the middle of a clone or a drop.
InFlight(c) == {h \in Handles : inner[h] = c /\ pc[h] \in {"loop", "withdrawn", "sub"}}

\* A handle no operation is in flight on.  After a clone that panicked the
\* handle is as it was before the call (clone takes &self and the unwinding
\* does not touch it): its owner may clone it again, or drop it.
AtRest(h) == pc[h] \in {"idle", "panicked"}

\* The cells that are there (not freed) in the block cell c was given: c
\* itself, or, c freed, the cell a later Warc::new was given the block for.
Tenants(c) == {d \in Cells : created[d] /\ freed[d] = 0 /\ block[d] = block[c]}
\* Cell c was freed and its block is no cell's: it is the allocator's again
\* (its data, or that of another allocation), or no longer mapped.
Unmapped(c) == freed[c] > 0 /\ Tenants(c) = {}
\* The blocks of freed cells that Box::new may hand out again.
ReusableBlocks == {block[d] : d \in {x \in Cells : created[x] /\ Unmapped(x)}}
\* The words an atomic access to Inner.global through a handle of cell c may
\* find: the counter; or, c freed (a use after free), any word at all: the
\* allocator's data, or a word of whatever has been put in the block since.
Stored(c) == IF freed[c] = 0 THEN {global[c]} ELSE 0..USIZE_MAX
\* The atomic write of w through a handle of cell c, after it read g there.
\* Through a dangling handle the word goes where the counter was: into
\* memory that is no cell's (the allocator's data, from then on corrupt), or
\* into the cell now in the block, where it is that cell's counter (then g
\* was that counter) or a word of its value.
Store(c, g, w) ==
    IF freed[c] = 0
    THEN /\ global' = [global EXCEPT ![c] = w]
         /\ UNCHANGED <<value, corrupt>>
    ELSE \/ /\ global' = [global EXCEPT ![c] = w]
            /\ corrupt' = (corrupt \/ Tenants(c) = {})
            /\ UNCHANGED value
         \/ \E d \in Tenants(c) :
               \/ /\ g = global[d]
                  /\ global' = [global EXCEPT ![c] = w, ![d] = w]
                  /\ UNCHANGED <<value, corrupt>>
               \/ /\ global' = [global EXCEPT ![c] = w]
                  /\ \E v \in Values \cup {NoValue} :
                        value' = [value EXCEPT ![d] = v]
                  /\ UNCHANGED corrupt
\* The process is killed (SIGSEGV on a block no longer mapped, or the
\* allocator's abort on a double free or on its corrupted data): no thread
\* takes another step.
Killed ==
    /\ pc' = [x \in Handles |-> IF pc[x] = "free" THEN "free" ELSE "killed"]
    /\ UNCHANGED <<cellVars, local, inner, current_global, new_global, ncas, nfail>>

RECURSIVE SumLocal(_)
SumLocal(S) == IF S = {} THEN 0
               ELSE LET h == CHOOSE x \in S : TRUE IN local[h] + SumLocal(S \ {h})

\* ------------------------------------------------------------------- Init
Init ==
    /\ created = [c \in Cells |-> FALSE]
    /\ global = [c \in Cells |-> 0]
    /\ value = [c \in Cells |-> NoValue]
    /\ freed = [c \in Cells |-> 0]
    /\ pc = [h \in Handles |-> "free"]
    /\ local = [h \in Handles |-> 0]
    /\ inner = [h \in Handles |-> NoCell]
    /\ current_global = [h \in Handles |-> 0]
    /\ new_global = [h \in Handles |-> 0]
    /\ ncas = [h \in Handles |-> 0]
    /\ nfail = [h \in Handles |-> 0]
    /\ given = [c \in Cells |-> NoValue]
    /\ block = [c \in Cells |-> 0]
    /\ corrupt = FALSE

\* ---------------------------------------------------------------- actions
\* Warc::new(value): lib.rs:24-35.  `cap` bounds the handles that exist.
\* Box::new gives the cell a fresh block, or the block of a cell freed
\* before; on a heap whose data has been written over it may abort instead.
New(c, v, cap) ==
    /\ ~created[c]
    /\ \A d \in Cells : d < c => created[d]
    /\ Cardinality(Used) < cap
    /\ \/ /\ created' = [created EXCEPT ![c] = TRUE]
          /\ \E b \in {c} \cup ReusableBlocks : block' = [block EXCEPT ![c] = b]
          /\ global' = [global EXCEPT ![c] = DEFAULT_WEIGHT]
          /\ value' = [value EXCEPT ![c] = v]
          /\ given' = [given EXCEPT ![c] = v]
          /\ pc' = [pc EXCEPT ![FreshSlot(c)] = "idle"]
          /\ local' = [local EXCEPT ![FreshSlot(c)] = DEFAULT_WEIGHT]
          /\ inner' = [inner EXCEPT ![FreshSlot(c)] = c]
          /\ UNCHANGED <<freed, corrupt, current_global, new_global, ncas, nfail>>
       \/ corrupt /\ Killed

\* The withdrawal put off until the weight is gone.
NeedsWithdrawAtZero(l) == l = 0

\* lib.rs:71  if local == 1
NeedsWithdraw(l) == l = 1

\* A shift by two.
HalveTwice(l) == l \div 4

\* lib.rs:91  local >>= 1
Halve(l) == l \div 2

\* The new handle pointed at another cell than the one cloned.
SplitOtherCell(h, l) ==
    /\ local' = [local EXCEPT ![h] = Halve(l), ![FreshSlot(inner[h])] = Halve(l)]
    /\ inner' = [inner EXCEPT ![FreshSlot(inner[h])] = (inner[h] % MaxCells) + 1]
    /\ pc' = [pc EXCEPT ![h] = "idle", ![FreshSlot(inner[h])] = "idle"]

\* The halved weight not stored back into the handle cloned (no lib.rs:92).
SplitNoStore(h, l) ==
    /\ local' = [local EXCEPT ![FreshSlot(inner[h])] = Halve(l)]
    /\ inner' = [inner EXCEPT ![FreshSlot(inner[h])] = inner[h]]
    /\ pc' = [pc EXCEPT ![h] = "idle", ![FreshSlot(inner[h])] = "idle"]

\* lib.rs:91-98: halve, store, and build the new handle.
Split(h, l) ==
    /\ local' = [local EXCEPT ![h] = Halve(l), ![FreshSlot(inner[h])] = Halve(l)]
    /\ inner' = [inner EXCEPT ![FreshSlot(inner[h])] = inner[h]]
    /\ pc' = [pc EXCEPT ![h] = "idle", ![FreshSlot(inner[h])] = "idle"]

\* Clone::clone with local != 1 (lib.rs:70-71, 91-98): private arithmetic only.
CloneFast(h, cap) ==
    /\ AtRest(h)
    /\ ~NeedsWithdraw(local[h])
    /\ Cardinality(Used) < cap
    /\ Split(h, local[h])
    /\ UNCHANGED <<cellVars, current_global, new_global, ncas, nfail>>

\* Clone::clone with local == 1, up to the load (lib.rs:70-73).
CloneLoad(h, cap) ==
    /\ AtRest(h)
    /\ NeedsWithdraw(local[h])
    /\ Cardinality(Used) < cap
    /\ \/ /\ pc' = [pc EXCEPT ![h] = "loop"]
          /\ \E g \in Stored(inner[h]) :
                current_global' = [current_global EXCEPT ![h] = g]
          /\ ncas' = [ncas EXCEPT ![h] = 0]
          /\ nfail' = [nfail EXCEPT ![h] = 0]
          /\ UNCHANGED <<cellVars, local, inner, new_global>>
       \/ Unmapped(inner[h]) /\ Killed

\* The value a failed compare-exchange returned thrown away.
ObservedStale(actual, cur) == cur

\* lib.rs:84  Err(global) => current_global = global
Observed(actual, cur) == actual

\* lib.rs:76  if current_global != usize::MAX
BelowCeiling(g) == g # USIZE_MAX

\* One turn of the loop (lib.rs:75-86): the ceiling test, the addition, and
\* the compare_exchange_weak, which may fail with the counter unchanged
\* (`spurious`: the weak compare-exchange is allowed to).
\* `checked` is the build: with overflow checks (a debug build) the addition
\* panics when it overflows, without them (a release build) it wraps.
\* A panic leaves the handle at rest, unchanged ("panicked").
CloneCas(h) ==
    /\ pc[h] = "loop"
    /\ LET c == inner[h]
           cur == current_global[h]
       IN  \E checked \in BOOLEAN :
           IF ~BelowCeiling(cur)
           THEN \* panic!("global weight is too high")
                /\ pc' = [pc EXCEPT ![h] = "panicked"]
                /\ current_global' = [current_global EXCEPT ![h] = 0]
                /\ nfail' = [nfail EXCEPT ![h] = 0]
                /\ UNCHANGED <<cellVars, local, inner, new_global, ncas>>
           ELSE IF cur + ADD_WEIGHT > USIZE_MAX /\ checked
           THEN \* "attempt to add with overflow"
                /\ pc' = [pc EXCEPT ![h] = "panicked"]
                /\ current_global' = [current_global EXCEPT ![h] = 0]
                /\ nfail' = [nfail EXCEPT ![h] = 0]
                /\ UNCHANGED <<cellVars, local, inner, new_global, ncas>>
           ELSE \/ \E spurious \in BOOLEAN, g \in Stored(c) :
                   IF g = cur /\ ~spurious
                   THEN \* Ok(_) => break
                        /\ Store(c, g, WrapAdd(cur, ADD_WEIGHT))
                        /\ new_global' = [new_global EXCEPT ![h] = WrapAdd(cur, ADD_WEIGHT)]
                        /\ ncas' = [ncas EXCEPT ![h] = ncas[h] + 1]
                        /\ pc' = [pc EXCEPT ![h] = "withdrawn"]
                        /\ UNCHANGED <<created, freed, given, block, local,
                                       inner, current_global, nfail>>
                   ELSE \* Err(global) => current_global = global
                        /\ current_global' = [current_global EXCEPT ![h] =
                                                 Observed(g, cur)]
                        /\ nfail' = [nfail EXCEPT ![h] =
                                        IF nfail[h] < MaxFails THEN nfail[h] + 1 ELSE nfail[h]]
                        /\ UNCHANGED <<cellVars, pc, local, inner, new_global, ncas>>
                \/ Unmapped(c) /\ Killed

\* `=` for `+=`.
CreditAssign(l, new, cur) == WrapSub(new, cur)

\* lib.rs:88  local += new_global - current_global
Credit(l, new, cur) == WrapAdd(l, WrapSub(new, cur))

\* After the loop (lib.rs:88-98).
CloneFinish(h) ==
    /\ pc[h] = "withdrawn"
    /\ Split(h, Credit(local[h], new_global[h], current_global[h]))
    /\ current_global' = [current_global EXCEPT ![h] = 0]
    /\ new_global' = [new_global EXCEPT ![h] = 0]
    /\ ncas' = [ncas EXCEPT ![h] = 0]
    /\ nfail' = [nfail EXCEPT ![h] = 0]
    /\ UNCHANGED <<cellVars>>

\* A drop that gives back a whole DEFAULT_WEIGHT, or a single unit.
DropAmountDefault(h) == DEFAULT_WEIGHT
DropAmountOne(h) == 1

\* lib.rs:58  the amount drop subtracts
DropAmount(h) == local[h]

\* Drop::drop, the fetch_sub (lib.rs:58), of a handle at rest.
DropSub(h) ==
    /\ AtRest(h)
    /\ LET c == inner[h]
       IN  \/ /\ \E g \in Stored(c) :
                    /\ Store(c, g, WrapSub(g, DropAmount(h)))
                    /\ current_global' = [current_global EXCEPT ![h] = g]
              /\ pc' = [pc EXCEPT ![h] = "sub"]
              /\ UNCHANGED <<created, freed, given, block, local, inner,
                             new_global, ncas, nfail>>
           \/ Unmapped(c) /\ Killed

\* The test inverted: the cell is freed unless the counter was already 0.
KeepsCellInverted(prior) == prior = 0

\* lib.rs:58  fetch_sub(..) != 0: drop returns without freeing
KeepsCell(prior) == prior # 0

\* Drop::drop after the fetch_sub (lib.rs:58-65): return, or free the cell.
\* What the freed block holds from then on is open: see Stored and Deref.
\* Box::from_raw frees the block: with it the cell now there, if the handle
\* dangles and that cell begins where the freed one did; a block that is
\* no cell's is freed twice, which corrupts the allocator's data.  The
\* allocator may answer any free through a dangling handle (a block freed
\* before, or an address inside another cell's block), and any free once
\* its data is corrupt, with an abort.
DropEnd(h) ==
    /\ pc[h] = "sub"
    /\ \/ /\ pc' = [pc EXCEPT ![h] = "free"]
          /\ local' = [local EXCEPT ![h] = 0]
          /\ inner' = [inner EXCEPT ![h] = NoCell]
          /\ current_global' = [current_global EXCEPT ![h] = 0]
          /\ IF KeepsCell(current_global[h])
             THEN UNCHANGED <<freed, corrupt>>
             ELSE /\ freed' = [x \in Cells |->
                                  IF (x = inner[h] \/ x \in Tenants(inner[h]))
                                     /\ freed[x] < MaxFrees
                                  THEN freed[x] + 1 ELSE freed[x]]
                  /\ corrupt' = (corrupt \/ Unmapped(inner[h]))
          /\ UNCHANGED <<created, global, value, given, block, new_global, ncas, nfail>>
       \/ /\ ~KeepsCell(current_global[h])
          /\ freed[inner[h]] > 0 \/ corrupt
          /\ Killed

\* Deref::deref (lib.rs:117-119): the values a read through handle h may
\* give.  The read of a cell that was freed is a read of freed memory: the
\* value still there, that of the cell now in the block, or anything else
\* (NoValue: no value of the type, or no result at all, the block no longer
\* mapped).
Deref(h) == IF freed[inner[h]] = 0 THEN {value[inner[h]]}
            ELSE Values \cup {NoValue}

Next ==
    \/ \E c \in 1..SpecCells, v \in SpecValues : New(c, v, MaxLive)
    \/ \E h \in Handles : CloneFast(h, MaxLive)
    \/ \E h \in Handles : CloneLoad(h, MaxLive)
    \/ \E h \in Handles : CloneCas(h)
    \/ \E h \in Handles : CloneFinish(h)
    \/ \E h \in Handles : DropSub(h)
    \/ \E h \in Handles : DropEnd(h)

Spec == Init /\ [][Next]_vars

\* ------------------------------------------------------------- SpecChain
\* tests::global (lib.rs:174-195): the handle Warc::new returned is cloned
\* again and again, and nothing else is done to its cell.
Members(c) == {h \in Handles : inner[h] = c}
Original(c) == CHOOSE h \in Members(c) : \A m \in Members(c) : h <= m
Newest(c) == CHOOSE h \in Members(c) : \A m \in Members(c) : m <= h
\* Clones of the original made so far.
ClonesMade(c) == Cardinality(Members(c)) - 1

ChainStart(c) ==
    /\ created[c]
    /\ ClonesMade(c) < ChainLen
    /\ \/ CloneFast(Original(c), MaxHandles)
       \/ CloneLoad(Original(c), MaxHandles)

ChainStep(c) ==
    /\ created[c]
    /\ \/ CloneCas(Original(c))
       \/ CloneFinish(Original(c))

NextChain ==
    \/ \E c \in Cells, v \in Values : New(c, v, MaxHandles)
    \/ \E c \in Cells : ChainStart(c)
    \/ \E c \in Cells : ChainStep(c)

SpecChain == Init /\ [][NextChain]_vars

\* ----------------------------------------------------------- SpecCeiling
\* The counter close to usize::MAX.  Cell 1 has a handle of weight 1; the
\* rest of its counter is the weight of handles that take no step (held by
\* other threads, or leaked with mem::forget, which gives no weight back).
\* The counters taken are those from which no run frees the cell under a live
\* handle.  From USIZE_MAX - ADD_WEIGHT + 1 the sum wraps to 0 and the first
\* drop frees the cell under its sibling: every access through that sibling
\* is then a use after free (Stored, Store, Killed), any word at each read.
CeilingGlobals == { USIZE_MAX, USIZE_MAX - 1, USIZE_MAX - ADD_WEIGHT }

InitCeiling ==
    /\ created = [c \in Cells |-> c = 1]
    /\ \E g \in CeilingGlobals : global = [c \in Cells |-> IF c = 1 THEN g ELSE 0]
    /\ \E v \in Values :
          /\ value = [c \in Cells |-> IF c = 1 THEN v ELSE NoValue]
          /\ given = value
    /\ freed = [c \in Cells |-> 0]
    /\ pc = [h \in Handles |-> IF h = 1 THEN "idle" ELSE "free"]
    /\ local = [h \in Handles |-> IF h = 1 THEN 1 ELSE 0]
    /\ inner = [h \in Handles |-> IF h = 1 THEN 1 ELSE NoCell]
    /\ current_global = [h \in Handles |-> 0]
    /\ new_global = [h \in Handles |-> 0]
    /\ ncas = [h \in Handles |-> 0]
    /\ nfail = [h \in Handles |-> 0]
    /\ block = [c \in Cells |-> IF c = 1 THEN 1 ELSE 0]
    /\ corrupt = FALSE

NextCeiling ==
    \/ \E h \in Handles : CloneFast(h, CeilingLive)
    \/ \E h \in Handles : CloneLoad(h, CeilingLive)
    \/ \E h \in Handles : CloneCas(h)
    \/ \E h \in Handles : CloneFinish(h)
    \/ \E h \in Handles : DropSub(h)
    \/ \E h \in Handles : DropEnd(h)

SpecCeiling == InitCeiling /\ [][NextCeiling]_vars

\* -------------------------------------------------------------- SpecPair
\* Two cells, each with its own handles, cloned and dropped side by side.
PairStart(h) ==
    /\ pc[h] # "free"
    /\ Cardinality(Members(inner[h])) < PairLive
    /\ \/ CloneFast(h, MaxHandles)
       \/ CloneLoad(h, MaxHandles)

NextPair ==
    \/ \E c \in Cells, v \in Values : New(c, v, MaxHandles)
    \/ \E h \in Handles : PairStart(h)
    \/ \E h \in Handles : CloneCas(h)
    \/ \E h \in Handles : CloneFinish(h)
    \/ \E h \in Handles : DropSub(h)
    \/ \E h \in Handles : DropEnd(h)

SpecPair == Init /\ [][NextPair]_vars

\* ================================================================ claims
IsPowerOfTwo(n) == \E k \in 0..WeightBits : n = 2 ^ k
HalfWeight == 2 ^ (WeightBits - 1)
\* Handle n comes into being in this step.
Appears(n) == pc[n] = "free" /\ pc'[n] # "free"
\* This step is the fetch_sub of a drop of h.
Subtracts(h) == pc[h] # "sub" /\ pc'[h] = "sub"

\* C1: at every quiescent point of a cell (no clone or drop of one of its
\* handles in flight) its counter is the sum of the weights of its live
\* handles, and so 0 once all of them are released.
C1_GlobalIsSumOfLocals ==
    \A c \in Cells :
        (created[c] /\ InFlight(c) = {}) => global[c] = SumLocal(Live(c))

\* C1 witness: three handles at rest after a withdrawal.
C1_Witness ==
    /\ created[1] /\ InFlight(1) = {}
    /\ Cardinality(Live(1)) = 3
    /\ global[1] > 2 ^ WeightBits
    /\ \E h \in Live(1) : local[h] = 1

\* C2: once every handle of a cell has been released, the cell has been
\* freed: the release that brought the counter to 0 freed it.
C2_LastReleaseFrees ==
    \A c \in Cells :
        (created[c] /\ Members(c) = {}) => freed[c] = 1

\* C3: a cell is freed at most once, and never while one of its handles is
\* still live.
C3_FreedOnceAndNotWhileLive ==
    \A c \in Cells :
        /\ freed[c] <= 1
        /\ freed[c] > 0 => Live(c) = {}

\* C3 witness: a release has ended while two other handles are live, and
\* the cell is still there.
C3_Witness ==
    /\ created[1] /\ freed[1] = 0
    /\ Cardinality(Members(1)) = 2 /\ Live(1) = Members(1) /\ InFlight(1) = {}
    /\ global[1] = HalfWeight + HalfWeight \div 2

\* C4: the weight of every handle is a power of two from 1 to DEFAULT_WEIGHT.
C4_LocalIsPowerOfTwo ==
    \A h \in Handles :
        pc[h] # "free" =>
            /\ IsPowerOfTwo(local[h])
            /\ local[h] >= 1 /\ local[h] <= 2 ^ WeightBits

\* C4 witness: the two handles a clone through a withdrawal has left, next
\* to a third of weight 1.
C4_Witness ==
    /\ global[1] > 2 ^ WeightBits
    /\ \E a, b, d \in Members(1) :
        /\ a # b /\ a # d /\ b # d
        /\ pc[a] = "idle" /\ pc[b] = "idle" /\ pc[d] = "idle"
        /\ local[a] = HalfWeight /\ local[b] = HalfWeight /\ local[d] = 1

\* C5: the counter of a cell is above 0 while one of its handles is live,
\* also in the middle of the clones and drops of its other handles.
C5_GlobalPositiveWhileLive ==
    \A c \in Cells : Live(c) # {} => global[c] > 0

\* C5 witness: a handle at rest, a drop past its fetch_sub and a clone
\* inside its loop, all at once.
C5_Witness ==
    \E a, b, d \in Members(1) :
        pc[a] = "idle" /\ pc[b] = "sub" /\ pc[d] = "loop"

\* C6: a clone of a handle of weight w > 1 leaves the counter as it is,
\* leaves the handle and the new one with w/2 each, and changes the weight
\* of no other handle.  (A step in which a handle appears in a cell that
\* exists, and that does not end a withdrawal, is such a clone.)
C6_CloneWithoutWithdrawal ==
    [][\A n \in Handles :
          ( /\ Appears(n)
            /\ created[inner'[n]]
            /\ ~ \E w \in Handles : pc[w] = "withdrawn" /\ pc'[w] # "withdrawn" )
          => ( /\ global' = global
               /\ \E h \in Handles \ {n} :
                    /\ pc[h] = "idle" /\ pc'[h] = "idle"
                    /\ inner[h] = inner'[n] /\ inner'[h] = inner[h]
                    /\ local[h] > 1
                    /\ 2 * local'[h] = local[h]
                    /\ 2 * local'[n] = local[h]
                    /\ \A o \in Handles \ {h, n} : local'[o] = local[o] )]_vars

\* C6 witness: the first clone of a new handle is done.
C6_Witness ==
    /\ global[1] = 2 ^ WeightBits
    /\ Cardinality(Members(1)) = 2
    /\ \A h \in Members(1) : pc[h] = "idle" /\ local[h] = HalfWeight

\* C7: a clone of a handle of weight 1 makes one successful compare-exchange,
\* which raises the counter by DEFAULT_WEIGHT - 1 over the value it holds at
\* that instant; the handle and the new one end with DEFAULT_WEIGHT / 2
\* each; and only a handle of weight 1 withdraws.
C7_CloneWithWithdrawal ==
    [][\A h \in Handles :
          /\ pc'[h] \in {"loop", "withdrawn"} => local'[h] = 1
          /\ pc'[h] = "loop" => ncas'[h] = 0
          /\ pc'[h] = "withdrawn" => ncas'[h] = 1
          /\ (pc[h] = "loop" /\ pc'[h] = "withdrawn") =>
                /\ global[inner[h]] = current_global[h]
                /\ global'[inner[h]] = global[inner[h]] + (2 ^ WeightBits - 1)
                /\ local' = local
          /\ (pc[h] = "withdrawn" /\ pc'[h] # "withdrawn") =>
                /\ pc'[h] = "idle" /\ ncas[h] = 1
                /\ global' = global
                /\ local'[h] = HalfWeight
                /\ \E n \in Handles \ {h} :
                      /\ Appears(n) /\ inner'[n] = inner[h]
                      /\ local'[n] = HalfWeight
                      /\ \A o \in Handles \ {h, n} : local'[o] = local[o]]_vars

\* C7 witness: a withdrawal is done while another handle's clone, which
\* loaded the counter before it, is still in its loop.
C7_Witness ==
    \E h, o \in Handles :
        /\ pc[h] = "withdrawn" /\ ncas[h] = 1
        /\ pc[o] = "loop" /\ inner[o] = inner[h]
        /\ current_global[o] = current_global[h]

\* C8: a turn of the loop whose candidate current_global + (DEFAULT_WEIGHT - 1)
\* is above usize::MAX ends in the panic, with the counter and every weight
\* as they were.
C8_OverflowAlwaysPanics ==
    [][\A h \in Handles :
          ( /\ pc[h] = "loop"
            /\ current_global[h] + (2 ^ WeightBits - 1) > USIZE_MAX
            /\ <<pc[h], current_global[h]>>' # <<pc[h], current_global[h]>> )
          => (pc'[h] = "panicked" /\ global' = global /\ local' = local)]_vars

\* C9: the fetch_sub of a drop of a handle of weight w lowers the counter by
\* w, and no step of a drop changes the weight of another handle.
C9_DropSubtractsLocal ==
    [][\A h \in Handles :
          /\ Subtracts(h) =>
                /\ global'[inner[h]] = global[inner[h]] - local[h]
                /\ \A c \in Cells \ {inner[h]} : global'[c] = global[c]
                /\ local' = local
          /\ (pc[h] = "sub" /\ pc'[h] # "sub") =>
                /\ pc'[h] = "free"
                /\ global' = global
                /\ \A o \in Handles \ {h} : local'[o] = local[o]]_vars

\* C9 witness: new, one clone, one drop: the handle left has weight 32768
\* and the counter is 32768.
C9_Witness ==
    /\ Cardinality(Members(1)) = 1
    /\ \A h \in Members(1) : pc[h] = "idle" /\ local[h] = HalfWeight
    /\ global[1] = HalfWeight

\* C10: after k <= 16 clones in a row of the handle new returned, that handle
\* and the k-th clone have weight DEFAULT_WEIGHT / 2^k and the counter is
\* still DEFAULT_WEIGHT; the 17th clone withdraws once, and leaves both with
\* DEFAULT_WEIGHT / 2 and the counter at 2 * DEFAULT_WEIGHT - 1.
C10_ChainOfClones ==
    \A c \in Cells :
        created[c] =>
            LET o == Original(c)
                k == ClonesMade(c)
            IN  /\ (pc[o] = "idle" /\ k <= WeightBits) =>
                      /\ local[o] = 2 ^ (WeightBits - k)
                      /\ local[Newest(c)] = 2 ^ (WeightBits - k)
                      /\ global[c] = 2 ^ WeightBits
                /\ pc[o] \in {"loop", "withdrawn"} => k = WeightBits
                /\ pc[o] = "loop" => ncas[o] = 0 /\ global[c] = 2 ^ WeightBits
                /\ pc[o] = "withdrawn" => ncas[o] = 1 /\ global[c] = 2 * 2 ^ WeightBits - 1
                /\ k = WeightBits + 1 =>
                      /\ pc[o] = "idle"
                      /\ local[o] = HalfWeight
                      /\ local[Newest(c)] = HalfWeight
                      /\ global[c] = 2 * 2 ^ WeightBits - 1

\* C10 witness: the 17th clone is done.
C10_Witness ==
    /\ ClonesMade(1) = WeightBits + 1
    /\ global[1] = 2 * 2 ^ WeightBits - 1
    /\ local[Original(1)] = HalfWeight

\* This step is a successful compare-exchange of a clone of h.
Withdraws(h) == pc[h] = "loop" /\ pc'[h] = "withdrawn"
\* This step is a failed compare-exchange of a clone of h.
FailsCas(h) ==
    /\ pc[h] = "loop" /\ pc'[h] = "loop"
    /\ <<current_global[h], nfail[h]>>' # <<current_global[h], nfail[h]>>

\* C11: no step changes the value of a cell, and the cell of a live handle
\* is not freed: a read through a live handle gives the value Warc::new was
\* called with, whatever its siblings are in the middle of.
C11_DerefGivesValue ==
    \A c \in Cells :
        \A h \in Live(c) :
            /\ freed[c] = 0
            /\ given[c] \in Values
            /\ Deref(h) = {given[c]}

\* C11 witness: a read through a handle at rest while one sibling is past
\* its fetch_sub and another has just withdrawn.
C11_Witness ==
    \E a, b, d \in Members(1) :
        /\ pc[a] = "idle" /\ pc[b] = "sub" /\ pc[d] = "withdrawn"
        /\ Deref(a) = {given[1]} /\ given[1] \in Values

\* C12: a step that changes the counter of a cell is a successful
\* compare-exchange, which adds DEFAULT_WEIGHT - 1, or the fetch_sub of a
\* drop, which takes the weight of the handle dropped; no other step does.
C12_OnlyWithdrawAndDropChangeGlobal ==
    [][\A c \in Cells :
          (created[c] /\ global'[c] # global[c]) =>
              \/ \E h \in Handles :
                    /\ inner[h] = c /\ Withdraws(h)
                    /\ global'[c] = global[c] + (2 ^ WeightBits - 1)
              \/ \E h \in Handles :
                    /\ inner[h] = c /\ Subtracts(h)
                    /\ global'[c] = global[c] - local[h]]_vars

\* C12 witness: two handles of weight 1 have both withdrawn, and one of the
\* four handles the two clones left has been dropped.
C12_Witness ==
    /\ Members(1) = Live(1) /\ InFlight(1) = {}
    /\ Cardinality(Live(1)) = 3
    /\ \A h \in Live(1) : local[h] = HalfWeight
    /\ global[1] = 3 * HalfWeight

\* C13: the fetch_sub of a drop finds the counter at or above the amount it
\* subtracts, so the counter never wraps below 0.
C13_DropNeverWraps ==
    [][\A h \in Handles :
          Subtracts(h) =>
              /\ global[inner[h]] >= local[h]
              /\ global'[inner[h]] = global[inner[h]] - local[h]
              /\ global'[inner[h]] >= 0]_vars

\* C13 witness: a drop is past its fetch_sub between the compare-exchange
\* and the end of a sibling's withdrawal.
C13_Witness ==
    \E a, b \in Members(1) :
        /\ pc[a] = "sub" /\ pc[b] = "withdrawn"
        /\ current_global[a] = new_global[b]

\* C14: a failed compare-exchange changes neither the counter nor a weight,
\* and leaves the clone with the value the counter holds; the successful one
\* is made on the value observed last, and the weight credited to the handle
\* is the increase of the counter.
C14_FailedCasRetries ==
    [][\A h \in Handles :
          /\ FailsCas(h) =>
                /\ global' = global /\ local' = local
                /\ current_global'[h] = global[inner[h]]
          /\ Withdraws(h) =>
                /\ current_global[h] = global[inner[h]]
                /\ new_global'[h] = global'[inner[h]]
                /\ new_global'[h] - current_global'[h]
                      = global'[inner[h]] - global[inner[h]]
          /\ (pc[h] = "withdrawn" /\ pc'[h] = "idle") =>
                2 * local'[h] = local[h] + (new_global[h] - current_global[h])]_vars

\* C14 witness: a withdrawal has succeeded after a failed compare-exchange,
\* on a value other than the one a sibling's withdrawal started from.
C14_Witness ==
    \E h, o \in Members(1) :
        /\ pc[h] = "withdrawn" /\ nfail[h] >= 1
        /\ pc[o] = "withdrawn"
        /\ current_global[h] = new_global[o]

\* C15: a compare-exchange of a clone's loop fails only when another thread
\* has changed the counter since the clone observed it, so that the loop
\* ends once the other threads leave the counter alone.
C15_FailedCasHasCause ==
    [][\A h \in Handles :
          FailsCas(h) => global[inner[h]] # current_global[h]]_vars

\* This step is a step of a clone or a drop of handle h.
Acts(h) ==
    /\ pc[h] # "free"
    /\ <<pc[h], local[h], current_global[h], nfail[h]>>'
          # <<pc[h], local[h], current_global[h], nfail[h]>>

\* C16: the handle a clone makes points at the cell of the handle cloned,
\* and a step of a clone or a drop of a handle of one cell changes neither
\* the counter of another cell nor a handle of another cell.
C16_CellsAreIndependent ==
    [][\A h \in Handles :
          Acts(h) =>
              /\ \A n \in Handles : Appears(n) => inner'[n] = inner[h]
              /\ \A d \in Cells \ {inner[h]} :
                    /\ global'[d] = global[d]
                    /\ freed'[d] = freed[d] /\ value'[d] = value[d]
                    /\ \A o \in Handles :
                          (inner[o] = d \/ inner'[o] = d) =>
                              /\ inner'[o] = inner[o]
                              /\ local'[o] = local[o]
                              /\ pc'[o] = pc[o]]_vars

\* C16 witness: a handle of cell 1 has just withdrawn while a drop of a
\* handle of cell 2, which has a second handle, is past its fetch_sub.
C16_Witness ==
    \E a \in Members(1), b, d \in Members(2) :
        /\ pc[a] = "withdrawn"
        /\ pc[b] = "sub" /\ pc[d] = "idle" /\ local[d] < HalfWeight

====
